---- MODULE Spec2Model ----
(***************************************************************************)
(* The JSON graph visualizer (src/src/components/JsonVisualizer.tsx):      *)
(* the component's state, its event handlers, and the graph that           *)
(* createGraph derives from the input text and the expansion set.          *)
(***************************************************************************)
EXTENDS Integers, Sequences, FiniteSets, TLC

(***************************************************************************)
(* JSON values.  A value is a record [tag, lit, entries]: tag is the       *)
(* JavaScript kind, lit the literal of a primitive, entries the members of *)
(* an object (key, value) or the items of an array (key unused).           *)
(***************************************************************************)
Entry(k, v) == [key |-> k, value |-> v]
Obj(es) == [tag |-> "Object", lit |-> "", entries |-> es]
Arr(vs) == [tag |-> "Array", lit |-> "", entries |-> [i \in 1..Len(vs) |-> Entry("", vs[i])]]
Num(l) == [tag |-> "Number", lit |-> l, entries |-> <<>>]
Str(l) == [tag |-> "String", lit |-> l, entries |-> <<>>]
Bool(l) == [tag |-> "Boolean", lit |-> l, entries |-> <<>>]
JNull == [tag |-> "Null", lit |-> "null", entries |-> <<>>]

\* undefined (the root's parent) and null (no selection)
Undefined == "undefined"
Null == "null"

\* The input texts the user can put in the textarea.
BlankText == ""
SpaceText == "  "
InvalidText == "{invalid"
AbText == "{\"a\":1,\"b\":[2,3]}"
NumText == "42"
EmptyObjText == "{}"
NestText == "[[],{\"x\":[true]},null]"
IntKeyText == "{\"b\":{\"k\":\"v\"},\"1\":[2],\"b\":[]}"
WideText == "[0,1,2,3,4,5,6]"
\* JSON.stringify(sampleJson, null, 2) of handleSampleJson, denoted by a token
SampleText == "<sampleJson>"

\* String.prototype.trim on the input texts
Trim(text) == IF text = SpaceText THEN "" ELSE text

\* The members of each valid text in the order they are written.
SourceTree(text) ==
  CASE text = AbText -> Obj(<<Entry("a", Num("1")), Entry("b", Arr(<<Num("2"), Num("3")>>))>>)
    [] text = NumText -> Num("42")
    [] text = EmptyObjText -> Obj(<<>>)
    [] text = NestText ->
         Arr(<<Arr(<<>>), Obj(<<Entry("x", Arr(<<Bool("true")>>))>>), JNull>>)
    [] text = WideText ->
         Arr(<<Num("0"), Num("1"), Num("2"), Num("3"), Num("4"), Num("5"), Num("6")>>)
    [] text = IntKeyText ->
         Obj(<<Entry("b", Obj(<<Entry("k", Str("v"))>>)),
               Entry("1", Arr(<<Num("2")>>)),
               Entry("b", Arr(<<>>))>>)
    [] text = SampleText ->
         Obj(<<
           Entry("user", Obj(<<
             Entry("name", Str("John Doe")),
             Entry("age", Num("30")),
             Entry("email", Str("john@example.com")),
             Entry("avatar", Str("data:image/svg+xml;base64,...")),
             Entry("website", Str("https://johndoe.dev"))>>)),
           Entry("projects", Arr(<<
             Obj(<<
               Entry("name", Str("Portfolio Website")),
               Entry("status", Str("completed")),
               Entry("technologies", Arr(<<Str("React"), Str("TypeScript"), Str("Tailwind")>>))>>),
             Obj(<<
               Entry("name", Str("Mobile App")),
               Entry("status", Str("in-progress")),
               Entry("technologies", Arr(<<Str("React Native"), Str("Expo")>>))>>)>>)),
           Entry("settings", Obj(<<
             Entry("theme", Str("dark")),
             Entry("notifications", Bool("true")),
             Entry("privacy", Obj(<<
               Entry("showEmail", Bool("false")),
               Entry("showPhone", Bool("true"))>>))>>)),
           Entry("metadata", JNull)>>)

ValidTexts == {AbText, NumText, EmptyObjText, NestText, IntKeyText, WideText, SampleText}

\* Keys that are canonical array indices, with their numeric value
IndexKeys == {"0", "1", "2"}
IndexOf(k) == CASE k = "0" -> 0 [] k = "1" -> 1 [] k = "2" -> 2

\* Own-property order of a JavaScript object built by assigning the entries
\* in sequence: a repeated key keeps its first position and takes the last
\* value; integer keys come first in ascending order, then the others in
\* insertion order.
LastValue(es, k) ==
  es[CHOOSE i \in 1..Len(es) : es[i].key = k /\ \A j \in (i+1)..Len(es) : es[j].key # k].value
FirstAt(es, i) == \A j \in 1..(i-1) : es[j].key # es[i].key
RECURSIVE DedupFrom(_, _)
DedupFrom(es, i) ==
  IF i > Len(es) THEN <<>>
  ELSE IF FirstAt(es, i)
       THEN <<Entry(es[i].key, LastValue(es, es[i].key))>> \o DedupFrom(es, i + 1)
       ELSE DedupFrom(es, i + 1)
RECURSIVE IndexEntries(_, _)
IndexEntries(es, n) ==
  IF n > 2 THEN <<>>
  ELSE SelectSeq(es, LAMBDA e : e.key \in IndexKeys /\ IndexOf(e.key) = n) \o IndexEntries(es, n + 1)
PropertyOrder(es) ==
  LET d == DedupFrom(es, 1)
  IN IndexEntries(d, 0) \o SelectSeq(d, LAMBDA e : e.key \notin IndexKeys)

\* JSON.parse of a valid text: the value with every object in property order
RECURSIVE Materialize(_)
Materialize(tree) ==
  IF tree.tag = "Object"
  THEN LET es == PropertyOrder(tree.entries)
       IN Obj([i \in 1..Len(es) |-> Entry(es[i].key, Materialize(es[i].value))])
  ELSE IF tree.tag = "Array"
  THEN [tag |-> "Array", lit |-> "",
        entries |-> [i \in 1..Len(tree.entries) |-> Entry("", Materialize(tree.entries[i].value))]]
  ELSE tree
ParseOk(text) == text \in ValidTexts
JSONParse(text) == Materialize(SourceTree(text))

(***************************************************************************)
(* createGraph: the traversal and the layout pass.                         *)
(***************************************************************************)
baseWidth == 220
baseHeight == 100
rowHeight == 25
heightCap == 150
levelWidth == 300
margin == 50
startY == 50
verticalGap == 30

\* `node-${nodeId}`
NodeId(n) == "node-" \o ToString(n)

\* Array.isArray(value) ? 'array' : value === null ? 'null' : typeof value
TypeOfJS(value) ==
  CASE value.tag = "String" -> "string"
    [] value.tag = "Number" -> "number"
    [] value.tag = "Boolean" -> "boolean"
    [] OTHER -> "object"
NodeTypeTypeof(value) ==
  IF value.tag = "Null" THEN "null" ELSE TypeOfJS(value)
NodeType(value) ==
  IF value.tag = "Array" THEN "array"
  ELSE IF value.tag = "Null" THEN "null"
  ELSE TypeOfJS(value)

\* Object.keys(value).length / value.length
Length(value) == Len(value.entries)

hasChildren(value) ==
  \/ NodeType(value) = "object" /\ value.tag # "Null" /\ Length(value) > 0
  \/ NodeType(value) = "array" /\ Length(value) > 0

Min(a, b) == IF a < b THEN a ELSE b
Max(a, b) == IF a > b THEN a ELSE b

extraHeightUncapped(value, isExpanded) ==
  IF hasChildren(value) /\ isExpanded THEN Length(value) * rowHeight ELSE 0
extraHeightFixed(value, isExpanded) == IF isExpanded THEN heightCap ELSE 0
extraHeight(value, isExpanded) ==
  IF hasChildren(value) /\ isExpanded
  THEN Min(Length(value) * rowHeight, heightCap)
  ELSE 0

\* the key a child is traversed with: the property name, or `[${index}]`
ChildKeyOneBased(value, i) ==
  IF NodeType(value) = "object" THEN value.entries[i].key
  ELSE "[" \o ToString(i) \o "]"
ChildKey(value, i) ==
  IF NodeType(value) = "object" THEN value.entries[i].key
  ELSE "[" \o ToString(i - 1) \o "]"

NewNode(currentId, key, value, parentId, level, isExpanded) ==
  [id |-> currentId, key |-> key, value |-> value, type |-> NodeType(value),
   x |-> 0, y |-> 0, width |-> baseWidth,
   height |-> baseHeight + extraHeight(value, isExpanded),
   children |-> <<>>, parent |-> parentId, level |-> level,
   isExpanded |-> isExpanded]

NewEdgeReversed(parentId, currentId) ==
  [from |-> currentId, to |-> parentId, fromSide |-> "right", toSide |-> "left"]
NewEdge(parentId, currentId) ==
  [from |-> parentId, to |-> currentId, fromSide |-> "right", toSide |-> "left"]

\* nodes.find(n => n.id === parentId), then parentNode.children.push(currentId)
PushChildFront(nodes, parentId, currentId) ==
  IF \E i \in 1..Len(nodes) : nodes[i].id = parentId
  THEN LET p == CHOOSE i \in 1..Len(nodes) :
                  nodes[i].id = parentId /\ \A j \in 1..(i-1) : nodes[j].id # parentId
       IN [nodes EXCEPT ![p].children = <<currentId>> \o @]
  ELSE nodes
PushChildLast(nodes, parentId, currentId) ==
  [nodes EXCEPT ![Len(nodes) - 1].children = Append(@, currentId)]
PushChild(nodes, parentId, currentId) ==
  IF \E i \in 1..Len(nodes) : nodes[i].id = parentId
  THEN LET p == CHOOSE i \in 1..Len(nodes) :
                  nodes[i].id = parentId /\ \A j \in 1..(i-1) : nodes[j].id # parentId
       IN [nodes EXCEPT ![p].children = Append(@, currentId)]
  ELSE nodes

\* expandedNodes.has(currentId)
IsExpandedRootOpen(expanded, currentId) == currentId \in expanded \/ currentId = NodeId(0)
IsExpanded(expanded, currentId) == currentId \in expanded

\* One call of traverse; g = [nodes, edges, nodeId] is the state the closure
\* mutates, and the result is that state after the call.
RECURSIVE traverse(_, _, _, _, _, _)
RECURSIVE traverseEntries(_, _, _, _, _, _)
traverse(g, expanded, value, key, parentId, level) ==
  LET currentId == NodeId(g.nodeId)
      isExpanded == IsExpanded(expanded, currentId)
      node == NewNode(currentId, key, value, parentId, level, isExpanded)
      pushed == Append(g.nodes, node)
      g1 == IF parentId # Undefined
            THEN [nodes |-> PushChild(pushed, parentId, currentId),
                  edges |-> Append(g.edges, NewEdge(parentId, currentId)),
                  nodeId |-> g.nodeId + 1]
            ELSE [nodes |-> pushed, edges |-> g.edges, nodeId |-> g.nodeId + 1]
  IN IF hasChildren(value) /\ isExpanded
     THEN traverseEntries(g1, expanded, value, 1, currentId, level + 1)
     ELSE g1
traverseEntries(g, expanded, value, i, currentId, level) ==
  IF i > Length(value) THEN g
  ELSE traverseEntries(
         traverse(g, expanded, value.entries[i].value, ChildKey(value, i), currentId, level),
         expanded, value, i + 1, currentId, level)

\* positionNodes: the levels in ascending order, each level's nodes in
\* traversal order, one running currentY
Indices(nodes, level) == SelectSeq([i \in 1..Len(nodes) |-> i], LAMBDA i : nodes[i].level = level)
RECURSIVE LevelOrder(_, _)
LevelOrder(nodes, level) ==
  IF \A i \in 1..Len(nodes) : nodes[i].level < level THEN <<>>
  ELSE Indices(nodes, level) \o LevelOrder(nodes, level + 1)
RECURSIVE Place(_, _, _, _)
Place(nodes, order, k, currentY) ==
  IF k > Len(order) THEN nodes
  ELSE LET i == order[k]
       IN Place([nodes EXCEPT ![i].x = nodes[i].level * levelWidth + margin,
                              ![i].y = currentY],
                order, k + 1, currentY + nodes[i].height + verticalGap)
positionNodesSkipped(nodes) == nodes
positionNodes(nodes) == Place(nodes, LevelOrder(nodes, 0), 1, startY)

EmptyBuild == [nodes |-> <<>>, edges |-> <<>>, nodeId |-> 0]
createGraph(text, expanded) ==
  LET g == IF Trim(text) # "" /\ ParseOk(text)
           THEN traverse(EmptyBuild, expanded, JSONParse(text), "root", Undefined, 0)
           ELSE EmptyBuild
  IN [nodes |-> positionNodes(g.nodes), edges |-> g.edges]

(***************************************************************************)
(* The component's state.                                                  *)
(***************************************************************************)
VARIABLES
  jsonInput,          \* useState('')
  zoom,               \* useState(0.8), in thousandths
  pan,                \* useState({ x: 50, y: 50 })
  isDragging,         \* useState(false)
  dragStart,          \* useState({ x: 0, y: 0 })
  selectedNode,       \* useState<string | null>(null)
  expandedNodes,      \* useState<Set<string>>(new Set())
  lastTouchDistance,  \* useState<number | null>(null)
  lastTap,            \* useState(0)
  now,                \* Date.now()
  lastClick,          \* the previous click the platform delivered to the svg
  listeners,          \* the event listeners attached to the container
  mounted,            \* the component is mounted
  roundTrip           \* the collapse-and-re-expand scenario in progress

vars == <<jsonInput, zoom, pan, isDragging, dragStart, selectedNode,
          expandedNodes, lastTouchDistance, lastTap, now, lastClick, listeners,
          mounted, roundTrip>>

viewport == <<zoom, pan, isDragging, dragStart, lastTouchDistance, lastTap, now>>
lifecycle == <<listeners, mounted>>

\* Bounds of the model
MaxExpanded == 3

InputTexts == {BlankText, SpaceText, InvalidText} \cup ValidTexts

DefaultZoom == 800
DefaultPan == [x |-> 50, y |-> 50]
NoDistance == -1
StartTime == 1000

NoRoundTrip == [active |-> FALSE, captured |-> {}, pending |-> {}]
\* no click has been delivered yet
NoClick == [at |-> 0, target |-> Null]

\* The listeners one run of the effect adds to the container, and its
\* cleanup removes.  handleWheel, handleTouchStart and handleTouchEnd are
\* made once (useCallback with no dependency); handleTouchMove is made anew
\* for every value of lastTouchDistance, which names it here.
Registered(distance) ==
  { [type |-> "wheel", handler |-> "handleWheel", deps |-> NoDistance],
    [type |-> "touchstart", handler |-> "handleTouchStart", deps |-> NoDistance],
    [type |-> "touchmove", handler |-> "handleTouchMove", deps |-> distance],
    [type |-> "touchend", handler |-> "handleTouchEnd", deps |-> NoDistance] }
Setup(ls, distance) == ls \cup Registered(distance)
Cleanup(ls, distance) == ls \ Registered(distance)
\* after a render the effect runs again when a handler in its dependency
\* list is a new function: the previous run's cleanup, then the setup
useEffectNoCleanup(ls, old, new) ==
  IF new = old THEN ls ELSE Setup(ls, new)
useEffect(ls, old, new) ==
  IF new = old THEN ls ELSE Setup(Cleanup(ls, old), new)

Init ==
  /\ jsonInput = ""
  /\ zoom = DefaultZoom
  /\ pan = DefaultPan
  /\ isDragging = FALSE
  /\ dragStart = [x |-> 0, y |-> 0]
  /\ selectedNode = Null
  /\ expandedNodes = {}
  /\ lastTouchDistance = NoDistance
  /\ lastTap = 0
  /\ now = StartTime
  /\ lastClick = NoClick
  /\ listeners = Registered(NoDistance)
  /\ mounted = TRUE
  /\ roundTrip = NoRoundTrip

\* const { nodes, edges } = useMemo(() => createGraph(jsonInput), [jsonInput, expandedNodes])
Graph == createGraph(jsonInput, expandedNodes)
nodes == Graph.nodes
edges == Graph.edges
NodeSet(seq) == {seq[i] : i \in 1..Len(seq)}

\* nodes.find(n => n.id === selectedNode)
Found(ns, id) == \E i \in 1..Len(ns) : ns[i].id = id
Find(ns, id) == ns[CHOOSE i \in 1..Len(ns) : ns[i].id = id /\ \A j \in 1..(i-1) : ns[j].id # id]
HasSelectedNodeData == selectedNode # Null /\ Found(nodes, selectedNode)

\* the overlay drawn over the canvas when nodes.length === 0
NoMessage == "none"
InvalidMessage == "Invalid JSON format"
EmptyMessage == "Enter JSON to visualize"
EmptyStateMessageUntrimmed(ns, text) ==
  IF Len(ns) = 0 THEN (IF text # "" THEN InvalidMessage ELSE EmptyMessage)
  ELSE NoMessage
EmptyStateMessage(ns, text) ==
  IF Len(ns) = 0 THEN (IF Trim(text) # "" THEN InvalidMessage ELSE EmptyMessage)
  ELSE NoMessage
Message == EmptyStateMessage(nodes, jsonInput)

\* getObjectPreview: a row for each of the first three entries of an object
\* or array
PreviewLimit == 3
getObjectPreview(value, type) ==
  IF (type = "object" /\ value.tag # "Null") \/ type = "array"
  THEN [i \in 1..Min(PreviewLimit, Length(value)) |->
          [key |-> ChildKey(value, i), type |-> NodeType(value.entries[i].value)]]
  ELSE <<>>
\* the preview rows renderNodeContent draws in a node's card
PreviewRows(node) ==
  IF node.type \in {"object", "array"}
  THEN getObjectPreview(node.value, node.type)
  ELSE <<>>
\* the N of the "+N more..." line, 0 when the line is not drawn
MoreCount(node) ==
  IF node.type \in {"object", "array"} /\ Length(node.value) > PreviewLimit
  THEN Length(node.value) - PreviewLimit
  ELSE 0

\* renderNodeContent's hasChildren: the expand/collapse button is drawn
RenderHasChildren(node) == Len(node.children) > 0 \/ hasChildren(node.value)

(***************************************************************************)
(* Input, expansion and selection handlers.                                *)
(***************************************************************************)
\* textarea onChange: setJsonInput(e.target.value)
SetJsonInput(text) ==
  /\ text # jsonInput
  /\ jsonInput' = text
  /\ UNCHANGED <<roundTrip, lastClick, lifecycle, expandedNodes, selectedNode, viewport>>

handleSampleJson ==
  /\ jsonInput' = SampleText
  /\ expandedNodes' = {NodeId(0)}
  /\ UNCHANGED <<roundTrip, lastClick, lifecycle, selectedNode, viewport>>

\* the state update of toggleNodeExpansion
ToggleSetExclusive(prev, nodeId) ==
  IF nodeId \in prev THEN prev \ {nodeId} ELSE {nodeId}
ToggleSet(prev, nodeId) ==
  IF nodeId \in prev THEN prev \ {nodeId} ELSE prev \cup {nodeId}

toggleNodeExpansion(nodeId) ==
  /\ expandedNodes' = ToggleSet(expandedNodes, nodeId)
  /\ UNCHANGED <<jsonInput, selectedNode, viewport>>

\* click on a node's expand/collapse button
ExpandButtonClick ==
  \E n \in NodeSet(nodes) :
    /\ RenderHasChildren(n)
    /\ Cardinality(ToggleSet(expandedNodes, n.id)) <= MaxExpanded
    /\ toggleNodeExpansion(n.id)
    /\ UNCHANGED <<roundTrip, lastClick, lifecycle>>

collapseAllNodesKeepRoot ==
  /\ expandedNodes' = expandedNodes \cap {NodeId(0)}
  /\ selectedNode' = Null
  /\ UNCHANGED <<jsonInput, viewport>>
collapseAllNodesAndView ==
  /\ expandedNodes' = {}
  /\ selectedNode' = Null
  /\ zoom' = DefaultZoom
  /\ pan' = DefaultPan
  /\ UNCHANGED <<jsonInput, isDragging, dragStart, lastTouchDistance, lastTap, now>>
collapseAllNodes ==
  /\ expandedNodes' = {}
  /\ selectedNode' = Null
  /\ UNCHANGED <<jsonInput, viewport>>

\* the "Collapse All" button
CollapseAllClick == collapseAllNodes /\ UNCHANGED <<roundTrip, lastClick, lifecycle>>

handleNodeClickClearFirst(nodeId) ==
  /\ selectedNode' = IF selectedNode = Null THEN nodeId ELSE Null
  /\ UNCHANGED <<roundTrip, lifecycle, jsonInput, expandedNodes, viewport>>
handleNodeClick(nodeId) ==
  /\ selectedNode' = IF selectedNode = nodeId THEN Null ELSE nodeId
  /\ UNCHANGED <<roundTrip, lifecycle, jsonInput, expandedNodes, viewport>>

\* click on a node's card
NodeClick == \E n \in NodeSet(nodes) : handleNodeClick(n.id) /\ UNCHANGED <<lastClick, lifecycle>>

\* the close button drawn on the selected node, and the panel's close button
CloseClick ==
  /\ HasSelectedNodeData
  /\ selectedNode' = Null
  /\ UNCHANGED <<roundTrip, lastClick, lifecycle, jsonInput, expandedNodes, viewport>>

\* a child entry of the details panel: setSelectedNode(childId)
ChildEntryClickExpanding ==
  /\ HasSelectedNodeData
  /\ \E i \in 1..Len(Find(nodes, selectedNode).children) :
       LET childId == Find(nodes, selectedNode).children[i]
       IN /\ Found(nodes, childId)
          /\ selectedNode' = childId
          /\ expandedNodes' = expandedNodes \cup {childId}
  /\ UNCHANGED <<roundTrip, lastClick, lifecycle, jsonInput, viewport>>
ChildEntryClick ==
  /\ HasSelectedNodeData
  /\ \E i \in 1..Len(Find(nodes, selectedNode).children) :
       LET childId == Find(nodes, selectedNode).children[i]
       IN /\ Found(nodes, childId)
          /\ selectedNode' = childId
  /\ UNCHANGED <<roundTrip, lastClick, lifecycle, jsonInput, expandedNodes, viewport>>

NextGraph ==
  \/ \E text \in InputTexts : SetJsonInput(text)
  \/ handleSampleJson
  \/ ExpandButtonClick
  \/ CollapseAllClick
  \/ NodeClick
  \/ CloseClick
  \/ ChildEntryClick

SpecGraph == Init /\ [][NextGraph]_vars

(***************************************************************************)
(* The collapse-and-re-expand scenario: the expansion set is captured,     *)
(* collapseAllNodes runs, and toggleNodeExpansion is then called once for  *)
(* each captured id, in any order, on the same input.                      *)
(***************************************************************************)
RoundTripCollapse ==
  /\ ~roundTrip.active
  /\ expandedNodes # {}
  /\ collapseAllNodes
  /\ roundTrip' = [active |-> TRUE, captured |-> expandedNodes, pending |-> expandedNodes]
  /\ UNCHANGED <<lastClick, lifecycle>>

RoundTripExpand ==
  /\ roundTrip.active
  /\ \E id \in roundTrip.pending :
       /\ toggleNodeExpansion(id)
       /\ roundTrip' = [roundTrip EXCEPT !.pending = @ \ {id}]
       /\ UNCHANGED <<lastClick, lifecycle>>

RoundTripEnd ==
  /\ roundTrip.active
  /\ roundTrip.pending = {}
  /\ roundTrip' = NoRoundTrip
  /\ UNCHANGED <<jsonInput, expandedNodes, selectedNode, viewport, lastClick, lifecycle>>

\* a user action outside the scenario
Idle(A) == ~roundTrip.active /\ A

NextRoundTrip ==
  \/ \E text \in InputTexts : Idle(SetJsonInput(text))
  \/ Idle(handleSampleJson)
  \/ Idle(ExpandButtonClick)
  \/ RoundTripCollapse
  \/ RoundTripExpand
  \/ RoundTripEnd

SpecRoundTrip == Init /\ [][NextRoundTrip]_vars

(***************************************************************************)
(* Viewport handlers.  zoom is kept in thousandths; a product is rounded   *)
(* to the nearest thousandth.                                              *)
(***************************************************************************)
MinZoom == 100
MaxZoom == 3000
ZoomOne == 1000
ZoomHalf == 500
DoubleTapMs == 300

\* bounds of the model
MaxPan == 250
MaxNow == 1300

Scale(z, num, den) == (z * num + den \div 2) \div den
\* Math.max(0.1, Math.min(3, z))
ClampLow(z) == IF z < MinZoom THEN MinZoom ELSE z
Clamp(z) == Max(MinZoom, Min(MaxZoom, z))

WheelDeltas == {-100, 0, 100}
handleWheelCoarse(modifier, deltaY) ==
  /\ IF modifier
     THEN zoom' = Clamp(IF deltaY > 0 THEN Scale(zoom, 9, 10) ELSE Scale(zoom, 11, 10))
     ELSE zoom' = zoom
  /\ UNCHANGED <<roundTrip, lastClick, lifecycle, jsonInput, expandedNodes, selectedNode, pan, isDragging, dragStart,
                 lastTouchDistance, lastTap, now>>
handleWheel(modifier, deltaY) ==
  /\ IF modifier
     THEN zoom' = Clamp(IF deltaY > 0 THEN Scale(zoom, 95, 100) ELSE Scale(zoom, 105, 100))
     ELSE zoom' = zoom
  /\ UNCHANGED <<roundTrip, lastClick, lifecycle, jsonInput, expandedNodes, selectedNode, pan, isDragging, dragStart,
                 lastTouchDistance, lastTap, now>>

\* touch points and the touch lists an event can carry
Point(x, y) == [x |-> x, y |-> y]
TouchLists ==
  { <<>>,
    <<Point(0, 0)>>,
    <<Point(0, 0), Point(0, 0)>>,
    <<Point(0, 0), Point(3, 4)>>,
    <<Point(0, 0), Point(30, 40)>>,
    <<Point(3, 4), Point(30, 40)>>,
    <<Point(0, 0), Point(3, 4), Point(30, 40)>> }
MaxDistance == 50
\* Math.sqrt on the squares the touch lists produce
RECURSIVE SqrtBetween(_, _, _)
SqrtBetween(n, lo, hi) ==
  IF lo = hi THEN lo
  ELSE LET mid == (lo + hi + 1) \div 2
       IN IF mid * mid <= n THEN SqrtBetween(n, mid, hi) ELSE SqrtBetween(n, lo, mid - 1)
Sqrt(n) == SqrtBetween(n, 0, MaxDistance)
getTouchDistance(touches) ==
  IF Len(touches) < 2 THEN NoDistance
  ELSE LET dx == touches[2].x - touches[1].x
           dy == touches[2].y - touches[1].y
       IN Sqrt(dx * dx + dy * dy)
\* truthiness of a distance: neither null nor 0
Truthy(distance) == distance # NoDistance /\ distance # 0

handleTouchStart(touches) ==
  /\ lastTouchDistance' = IF Len(touches) = 2 THEN getTouchDistance(touches)
                          ELSE lastTouchDistance
  /\ UNCHANGED <<roundTrip, lastClick, mounted, jsonInput, expandedNodes, selectedNode, zoom, pan, isDragging,
                 dragStart, lastTap, now>>
  /\ listeners' = useEffect(listeners, lastTouchDistance, lastTouchDistance')

\* prev * (1 + (distance / lastTouchDistance - 1) * 0.3)
DampedRaw(prev, distance, last) == Scale(prev, distance, last)
Damped(prev, distance, last) == Scale(prev, 7 * last + 3 * distance, 10 * last)

handleTouchMove(touches) ==
  /\ LET distance == getTouchDistance(touches)
     IN IF Len(touches) = 2 /\ Truthy(lastTouchDistance) /\ Truthy(distance)
        THEN /\ zoom' = Clamp(Damped(zoom, distance, lastTouchDistance))
             /\ lastTouchDistance' = distance
        ELSE UNCHANGED <<zoom, lastTouchDistance>>
  /\ UNCHANGED <<roundTrip, lastClick, mounted, jsonInput, expandedNodes, selectedNode, pan, isDragging, dragStart,
                 lastTap, now>>
  /\ listeners' = useEffect(listeners, lastTouchDistance, lastTouchDistance')

handleTouchEnd ==
  /\ lastTouchDistance' = NoDistance
  /\ UNCHANGED <<roundTrip, lastClick, mounted, jsonInput, expandedNodes, selectedNode, zoom, pan, isDragging,
                 dragStart, lastTap, now>>
  /\ listeners' = useEffect(listeners, lastTouchDistance, lastTouchDistance')

\* time passes between events
TickSteps == {150, 300}
Tick ==
  \E dt \in TickSteps :
    /\ now + dt <= MaxNow
    /\ now' = now + dt
    /\ UNCHANGED <<roundTrip, lastClick, lifecycle, jsonInput, expandedNodes, selectedNode, zoom, pan, isDragging,
                   dragStart, lastTouchDistance, lastTap>>

\* onCanvas: e.target === svgRef.current
handleDoubleClick(onCanvas) ==
  /\ IF onCanvas
     THEN /\ IF now - lastTap < DoubleTapMs
             THEN /\ zoom' = IF zoom = ZoomOne THEN ZoomHalf ELSE ZoomOne
                  /\ pan' = DefaultPan
             ELSE UNCHANGED <<zoom, pan>>
          /\ lastTap' = now
     ELSE UNCHANGED <<zoom, pan, lastTap>>
  /\ UNCHANGED <<roundTrip, lifecycle, jsonInput, expandedNodes, selectedNode, isDragging, dragStart,
                 lastTouchDistance, now>>

\* a dblclick event reaching the svg's onDoubleClick
DoubleClick(onCanvas) == handleDoubleClick(onCanvas) /\ UNCHANGED <<lastClick, lifecycle>>

handleRecenterCollapsing ==
  /\ zoom' = DefaultZoom
  /\ pan' = DefaultPan
  /\ selectedNode' = Null
  /\ expandedNodes' = {}
  /\ UNCHANGED <<roundTrip, lastClick, lifecycle, jsonInput, isDragging, dragStart, lastTouchDistance,
                 lastTap, now>>
handleRecenter ==
  /\ zoom' = DefaultZoom
  /\ pan' = DefaultPan
  /\ selectedNode' = Null
  /\ UNCHANGED <<roundTrip, lastClick, lifecycle, jsonInput, expandedNodes, isDragging, dragStart, lastTouchDistance,
                 lastTap, now>>

Pointers == {Point(0, 0), Point(100, 40)}
\* a press on the canvas, or on a drawn node (then the target is not the svg)
handleMouseDownNoOffset(onCanvas, p) ==
  /\ IF onCanvas
     THEN /\ isDragging' = TRUE
          /\ dragStart' = p
     ELSE UNCHANGED <<isDragging, dragStart>>
  /\ UNCHANGED <<roundTrip, lastClick, lifecycle, jsonInput, expandedNodes, selectedNode, zoom, pan, lastTouchDistance,
                 lastTap, now>>
handleMouseDown(onCanvas, p) ==
  /\ IF onCanvas
     THEN /\ isDragging' = TRUE
          /\ dragStart' = Point(p.x - pan.x, p.y - pan.y)
     ELSE UNCHANGED <<isDragging, dragStart>>
  /\ UNCHANGED <<roundTrip, lastClick, lifecycle, jsonInput, expandedNodes, selectedNode, zoom, pan, lastTouchDistance,
                 lastTap, now>>

InPanBounds(q) == q.x \in -MaxPan..MaxPan /\ q.y \in -MaxPan..MaxPan
handleMouseMove(p) ==
  /\ IF isDragging
     THEN /\ InPanBounds(Point(p.x - dragStart.x, p.y - dragStart.y))
          /\ pan' = Point(p.x - dragStart.x, p.y - dragStart.y)
     ELSE pan' = pan
  /\ UNCHANGED <<roundTrip, lastClick, lifecycle, jsonInput, expandedNodes, selectedNode, zoom, isDragging, dragStart,
                 lastTouchDistance, lastTap, now>>

\* onMouseUp and onMouseLeave
handleMouseUp ==
  /\ isDragging' = FALSE
  /\ UNCHANGED <<roundTrip, lastClick, lifecycle, jsonInput, expandedNodes, selectedNode, zoom, pan, dragStart,
                 lastTouchDistance, lastTap, now>>

handleZoomIn ==
  /\ zoom' = Min(Scale(zoom, 12, 10), MaxZoom)
  /\ UNCHANGED <<roundTrip, lastClick, lifecycle, jsonInput, expandedNodes, selectedNode, pan, isDragging, dragStart,
                 lastTouchDistance, lastTap, now>>

handleZoomOut ==
  /\ zoom' = Max(Scale(zoom, 10, 12), MinZoom)
  /\ UNCHANGED <<roundTrip, lastClick, lifecycle, jsonInput, expandedNodes, selectedNode, pan, isDragging, dragStart,
                 lastTouchDistance, lastTap, now>>

handleResetViewClearing ==
  /\ zoom' = DefaultZoom
  /\ pan' = DefaultPan
  /\ selectedNode' = Null
  /\ UNCHANGED <<roundTrip, lastClick, lifecycle, jsonInput, expandedNodes, isDragging, dragStart,
                 lastTouchDistance, lastTap, now>>
handleResetView ==
  /\ zoom' = DefaultZoom
  /\ pan' = DefaultPan
  /\ UNCHANGED <<roundTrip, lastClick, lifecycle, jsonInput, expandedNodes, selectedNode, isDragging, dragStart,
                 lastTouchDistance, lastTap, now>>

\* a press on the canvas needs no node; a press on a node needs one drawn
PressTargets == {TRUE} \cup {FALSE : n \in NodeSet(nodes)}

\* The zoom factor: every handler that writes zoom, and the clock
NextZoom ==
  \/ \E m \in BOOLEAN, d \in WheelDeltas : handleWheel(m, d)
  \/ \E t \in TouchLists : handleTouchStart(t)
  \/ \E t \in TouchLists : handleTouchMove(t)
  \/ handleTouchEnd
  \/ Tick
  \/ DoubleClick(TRUE)
  \/ handleZoomIn
  \/ handleZoomOut
  \/ handleResetView
  \/ handleRecenter

SpecZoom == Init /\ [][NextZoom]_vars

\* The pinch gesture among the other handlers that scale the zoom
NextPinch ==
  \/ \E t \in TouchLists : handleTouchStart(t)
  \/ \E t \in TouchLists : handleTouchMove(t)
  \/ handleTouchEnd
  \/ \E m \in BOOLEAN, d \in WheelDeltas : handleWheel(m, d)
  \/ handleZoomIn
  \/ handleZoomOut
  \/ handleResetView

SpecPinch == Init /\ [][NextPinch]_vars

\* Dragging, double-tap and the view buttons over a graph the user expands
\* and selects in
DragTexts == {BlankText, AbText}
NextDrag ==
  \/ \E text \in DragTexts : SetJsonInput(text)
  \/ ExpandButtonClick
  \/ CollapseAllClick
  \/ NodeClick
  \/ CloseClick
  \/ \E c \in PressTargets, p \in Pointers : handleMouseDown(c, p)
  \/ \E p \in Pointers : handleMouseMove(p)
  \/ handleMouseUp
  \/ Tick
  \/ \E c \in PressTargets : DoubleClick(c)
  \/ handleResetView
  \/ handleRecenter

SpecDrag == Init /\ [][NextDrag]_vars

\* Every viewport handler over a graph: the sample document with its root
\* expanded.  A gesture that scales the zoom starts from a zoom that a
\* button or a double-click has set.
SetZooms == {DefaultZoom, ZoomOne, ZoomHalf}
FromSetZoom(A) == zoom \in SetZooms /\ A
NextView ==
  \/ handleSampleJson
  \/ \E m \in BOOLEAN, d \in WheelDeltas : FromSetZoom(handleWheel(m, d))
  \/ \E t \in TouchLists : handleTouchStart(t)
  \/ \E t \in TouchLists : FromSetZoom(handleTouchMove(t))
  \/ handleTouchEnd
  \/ \E c \in PressTargets, p \in Pointers : handleMouseDown(c, p)
  \/ \E p \in Pointers : handleMouseMove(p)
  \/ handleMouseUp
  \/ \E c \in PressTargets : DoubleClick(c)
  \/ FromSetZoom(handleZoomIn)
  \/ FromSetZoom(handleZoomOut)
  \/ handleResetView
  \/ handleRecenter

SpecView == Init /\ [][NextView]_vars

(***************************************************************************)
(* Taps.  The svg has no click listener, only onDoubleClick: a click (a    *)
(* tap) reaches handleDoubleClick only as the dblclick event the platform  *)
(* delivers with the second click of a pair on the same target.  The       *)
(* interval within which two clicks pair is the platform's, so a click     *)
(* that follows another on the same target may or may not be paired.  The  *)
(* press and release of a click are the events handleMouseDown and         *)
(* handleMouseUp.                                                          *)
(***************************************************************************)
CanvasTarget == "canvas"
Click(target) == [at |-> now, target |-> target]
Pairs(target) == lastClick.at # 0 /\ lastClick.target = target

\* a click on the empty canvas
CanvasTap ==
  /\ lastClick' = Click(CanvasTarget)
  /\ \/ Pairs(CanvasTarget) /\ handleDoubleClick(TRUE)
     \/ UNCHANGED <<roundTrip, lifecycle, jsonInput, expandedNodes, selectedNode, viewport>>

\* a click on a node's card: its onClick runs handleNodeClick; a dblclick
\* delivered with it has a target other than the svg, and handleDoubleClick
\* then writes nothing
NodeTap ==
  \E n \in NodeSet(nodes) :
    /\ lastClick' = Click(n.id)
    /\ handleNodeClick(n.id)

NextTap ==
  \/ \E text \in DragTexts : SetJsonInput(text)
  \/ Tick
  \/ CanvasTap
  \/ NodeTap
  \/ \E p \in Pointers : handleMouseDown(TRUE, p)
  \/ \E p \in Pointers : handleMouseMove(p)
  \/ handleMouseUp

SpecTap == Init /\ [][NextTap]_vars

(***************************************************************************)
(* Mount and unmount.  Init is the component after its first render and    *)
(* the first run of the effect.  Unmounting runs the cleanup of the last   *)
(* run; mounting again starts a fresh instance.                            *)
(***************************************************************************)
Unmount ==
  /\ mounted
  /\ mounted' = FALSE
  /\ listeners' = Cleanup(listeners, lastTouchDistance)
  /\ UNCHANGED <<roundTrip, lastClick, jsonInput, expandedNodes, selectedNode, viewport>>

Mount ==
  /\ ~mounted
  /\ mounted' = TRUE
  /\ listeners' = Setup(listeners, NoDistance)
  /\ jsonInput' = ""
  /\ zoom' = DefaultZoom
  /\ pan' = DefaultPan
  /\ isDragging' = FALSE
  /\ dragStart' = [x |-> 0, y |-> 0]
  /\ selectedNode' = Null
  /\ expandedNodes' = {}
  /\ lastTouchDistance' = NoDistance
  /\ lastTap' = 0
  /\ UNCHANGED <<roundTrip, lastClick, now>>

\* an event delivered to the mounted component
Mounted(A) == mounted /\ A

NextMount ==
  \/ \E t \in TouchLists : Mounted(handleTouchStart(t))
  \/ \E t \in TouchLists : Mounted(handleTouchMove(t))
  \/ Mounted(handleTouchEnd)
  \/ Mounted(handleResetView)
  \/ Unmount
  \/ Mount

SpecMount == Init /\ [][NextMount]_vars

Next == NextGraph \/ NextZoom \/ NextPinch \/ NextDrag \/ NextRoundTrip \/ NextView \/ NextTap \/ NextMount
Spec == Init /\ [][Next]_vars

(***************************************************************************)
(* Properties.                                                             *)
(***************************************************************************)
\* a value that is an object or array with at least one member
NonEmptyContainer(value) == value.tag \in {"Object", "Array"} /\ Len(value.entries) > 0
\* the input parses and is not blank
ValidInput == Trim(jsonInput) # "" /\ ParseOk(jsonInput)
Incoming(es, id) == {i \in 1..Len(es) : es[i].to = id}

\* C1: a node of the built graph has children exactly when its value is a
\* non-empty object or array and its id is in the expansion set.
C1_ChildrenIffExpandedContainer ==
  \A n \in NodeSet(nodes) :
    (Len(n.children) > 0) <=> (NonEmptyContainer(n.value) /\ n.id \in expandedNodes)

\* C1 witness: one graph with an expanded container, a collapsed non-empty
\* container, and a leaf whose id is in the expansion set.
C1_Witness ==
  /\ \E n \in NodeSet(nodes) : Len(n.children) > 0
  /\ \E n \in NodeSet(nodes) : NonEmptyContainer(n.value) /\ n.id \notin expandedNodes
  /\ \E n \in NodeSet(nodes) : ~NonEmptyContainer(n.value) /\ n.id \in expandedNodes

\* C2: a non-empty graph has one node more than edges; its first node, the
\* root, has no incoming edge and every other node has exactly one.
C2_TreeCounts ==
  Len(nodes) > 0 =>
    /\ Len(nodes) = Len(edges) + 1
    /\ Incoming(edges, nodes[1].id) = {}
    /\ \A i \in 2..Len(nodes) : Cardinality(Incoming(edges, nodes[i].id)) = 1

\* C2 witness: a graph three levels deep.
C2_Witness == Len(nodes) >= 6 /\ \E n \in NodeSet(nodes) : n.level = 2

\* C3: when the input is replaced by a different text and the expansion set
\* is kept, no node of the graph built next has an id of the expansion set.
C3_StaleIdsInert ==
  [][(jsonInput' # jsonInput /\ expandedNodes' = expandedNodes)
       => \A n \in NodeSet(createGraph(jsonInput', expandedNodes').nodes) :
            n.id \notin expandedNodes]_vars

\* graphs g and h agree on every edge and on every node field, except that
\* the isExpanded flag of the node with this id is inverted
SameButExpandedFlag(g, h, id) ==
  /\ g.edges = h.edges
  /\ Len(g.nodes) = Len(h.nodes)
  /\ \A i \in 1..Len(g.nodes) :
       IF g.nodes[i].id = id
       THEN h.nodes[i] = [g.nodes[i] EXCEPT !.isExpanded = ~@]
       ELSE h.nodes[i] = g.nodes[i]

\* C4 as claimed: toggling the id of a leaf (a primitive or an empty
\* container) in the expansion set leaves every node field and every edge
\* of the built graph as it was.
C4_LeafToggleIdentical ==
  \A n \in NodeSet(nodes) :
    ~NonEmptyContainer(n.value)
      => createGraph(jsonInput, ToggleSet(expandedNodes, n.id)) = Graph

\* C4 amended: toggling the id of a leaf changes nothing but that leaf's own
\* isExpanded flag: every edge, every other node and every other field of
\* the leaf (size and position included) is as it was.
C4_LeafToggleOnlyFlag ==
  \A n \in NodeSet(nodes) :
    ~NonEmptyContainer(n.value)
      => SameButExpandedFlag(Graph, createGraph(jsonInput, ToggleSet(expandedNodes, n.id)), n.id)

\* C4 witness: a graph with a collapsed container, a leaf whose id is in the
\* expansion set and a leaf whose id is not.
C4_Witness ==
  /\ Len(nodes) >= 3
  /\ \E n \in NodeSet(nodes) : ~NonEmptyContainer(n.value) /\ n.id \in expandedNodes
  /\ \E n \in NodeSet(nodes) : ~NonEmptyContainer(n.value) /\ n.id \notin expandedNodes

\* C6: with an empty expansion set a valid input builds exactly the root
\* node and no edge.
C6_CollapsedIsRootOnly ==
  (ValidInput /\ expandedNodes = {}) =>
    /\ Len(nodes) = 1
    /\ nodes[1].key = "root"
    /\ nodes[1].parent = Undefined
    /\ nodes[1].level = 0
    /\ edges = <<>>

\* C6 witness: the sample, whose root has members, after a collapse.
C6_Witness == jsonInput = SampleText /\ expandedNodes = {}

\* C7: once collapseAllNodes has run and every captured id has been toggled
\* again, the graph is the graph of the captured expansion set.
C7_RoundTrip ==
  (roundTrip.active /\ roundTrip.pending = {})
    => Graph = createGraph(jsonInput, roundTrip.captured)

\* C7 witness: a finished round trip over an expansion set of three ids
\* that shows nodes three levels deep.
C7_Witness ==
  /\ roundTrip.active /\ roundTrip.pending = {}
  /\ Cardinality(roundTrip.captured) = 3
  /\ \E n \in NodeSet(nodes) : n.level = 2

\* C8: the zoom factor is within [0.1, 3.0].
C8_ZoomInRange == zoom \in MinZoom..MaxZoom

\* C8 witness: a pinch in progress with the zoom at the upper limit.
C8_Witness == zoom = MaxZoom /\ Truthy(lastTouchDistance)

\* C9: a toggle of one id inverts the membership of that id, keeps the
\* membership of every other id, and keeps selection, zoom and pan.
C9_ToggleFlipsOnlyThatId ==
  [][\A n \in NodeSet(nodes) :
       toggleNodeExpansion(n.id) =>
         /\ (n.id \in expandedNodes') <=> (n.id \notin expandedNodes)
         /\ \A other \in (expandedNodes \cup expandedNodes') \ {n.id} :
              (other \in expandedNodes') <=> (other \in expandedNodes)
         /\ UNCHANGED <<selectedNode, zoom, pan>>]_vars

\* C9 witness: two ids expanded one after the other, with a selection and a
\* zoom and pan that are not the defaults.
C9_Witness ==
  /\ Cardinality(expandedNodes) = 2
  /\ selectedNode # Null
  /\ zoom # DefaultZoom
  /\ pan # DefaultPan

\* C10: collapseAllNodes leaves the expansion set empty and the selection
\* null, and keeps zoom, pan and the input text.
C10_CollapseAll ==
  [][collapseAllNodes =>
       /\ expandedNodes' = {}
       /\ selectedNode' = Null
       /\ UNCHANGED <<zoom, pan, jsonInput>>]_vars

\* C10 witness: a valid input with expanded nodes, a selection, a drag in
\* progress and a zoom and pan that are not the defaults, where
\* collapseAllNodes acts next.
C10_Witness ==
  /\ ValidInput /\ expandedNodes # {} /\ selectedNode # Null
  /\ isDragging
  /\ zoom # DefaultZoom
  /\ pan # DefaultPan

\* the raw input is empty or whitespace only
IsBlank(text) == text \in {BlankText, SpaceText}

\* C11: when the input is blank or does not parse, the graph has no node
\* and no edge, and the overlay shows the invalid-JSON message exactly when
\* the input is not blank and the empty-input message otherwise.
C11_BlankOrUnparseable ==
  (IsBlank(jsonInput) \/ ~ParseOk(jsonInput)) =>
    /\ nodes = <<>>
    /\ edges = <<>>
    /\ Message = IF IsBlank(jsonInput) THEN EmptyMessage ELSE InvalidMessage

\* C11 witness: a whitespace-only input typed over a document whose nodes
\* had been expanded.
C11_Witness == jsonInput = SpaceText /\ expandedNodes # {}

\* C12: {"a":1,"b":[2,3]} with only the root's id expanded builds exactly
\* the nodes root (object), a (number), b (array) in this order, the edges
\* root->a and root->b, and b without children.
C12_AbRootExpanded ==
  (jsonInput = AbText /\ expandedNodes = {NodeId(0)}) =>
    /\ Len(nodes) = 3
    /\ nodes[1].id = NodeId(0) /\ nodes[1].key = "root" /\ nodes[1].type = "object"
    /\ nodes[2].key = "a" /\ nodes[2].type = "number" /\ nodes[2].value = Num("1")
    /\ nodes[3].key = "b" /\ nodes[3].type = "array" /\ nodes[3].children = <<>>
    /\ nodes[1].children = <<nodes[2].id, nodes[3].id>>
    /\ Len(edges) = 2
    /\ edges[1].from = nodes[1].id /\ edges[1].to = nodes[2].id
    /\ edges[2].from = nodes[1].id /\ edges[2].to = nodes[3].id

\* C12 witness: that input with that expansion set.
C12_Witness == jsonInput = AbText /\ expandedNodes = {NodeId(0)}

\* C13: the same input with the ids of the root and of b (the third node,
\* node-2) expanded builds 5 nodes and 4 edges: the three nodes and two
\* edges of C12, then [0] = 2 and [1] = 3 as the children of b, with the
\* edges b->[0] and b->[1].
C13_AbBothExpanded ==
  (jsonInput = AbText /\ expandedNodes = {NodeId(0), NodeId(2)}) =>
    /\ Len(nodes) = 5
    /\ Len(edges) = 4
    /\ nodes[1].key = "root" /\ nodes[2].key = "a"
    /\ nodes[3].key = "b" /\ nodes[3].id = NodeId(2)
    /\ nodes[4].key = "[0]" /\ nodes[4].value = Num("2") /\ nodes[4].parent = nodes[3].id
    /\ nodes[5].key = "[1]" /\ nodes[5].value = Num("3") /\ nodes[5].parent = nodes[3].id
    /\ nodes[3].children = <<nodes[4].id, nodes[5].id>>
    /\ edges[1].from = nodes[1].id /\ edges[1].to = nodes[2].id
    /\ edges[2].from = nodes[1].id /\ edges[2].to = nodes[3].id
    /\ edges[3].from = nodes[3].id /\ edges[3].to = nodes[4].id
    /\ edges[4].from = nodes[3].id /\ edges[4].to = nodes[5].id

\* C13 witness: that input with both ids expanded.
C13_Witness == jsonInput = AbText /\ expandedNodes = {NodeId(0), NodeId(2)}

\* C14: the selection is one id or none; a click on the selected node
\* clears it, a click on any other node makes that node the selection, and
\* the close button clears it.
C14_SingleToggling ==
  /\ [](selectedNode \in STRING)
  /\ [][/\ \A n \in NodeSet(nodes) :
             handleNodeClick(n.id) =>
               selectedNode' = IF selectedNode = n.id THEN Null ELSE n.id
        /\ CloseClick => selectedNode' = Null]_vars

\* C14 witness: a node is selected while other nodes are drawn.
C14_Witness == HasSelectedNodeData /\ Len(nodes) >= 3

\* C15: a release that ends a press on the empty canvas clears a selection.
C15_CanvasClickClears ==
  [][(isDragging /\ handleMouseUp /\ selectedNode # Null) => selectedNode' = Null]_vars

\* C16: a click on a node's card and a click on a child entry of the
\* details panel keep the expansion set and the built graph.
C16_SelectionKeepsGraph ==
  [][((\E n \in NodeSet(nodes) : handleNodeClick(n.id)) \/ ChildEntryClick) =>
       /\ expandedNodes' = expandedNodes
       /\ createGraph(jsonInput', expandedNodes') = Graph]_vars

\* C16 witness: a selected node whose children are listed, one of them a
\* collapsed container.
C16_Witness ==
  /\ HasSelectedNodeData
  /\ \E i \in 1..Len(Find(nodes, selectedNode).children) :
       LET childId == Find(nodes, selectedNode).children[i]
       IN Found(nodes, childId) /\ childId \notin expandedNodes
            /\ hasChildren(Find(nodes, childId).value)

\* a step of one of the viewport handlers
ViewportStep ==
  \/ \E m \in BOOLEAN, d \in WheelDeltas : handleWheel(m, d)
  \/ \E t \in TouchLists : handleTouchStart(t) \/ handleTouchMove(t)
  \/ handleTouchEnd
  \/ \E c \in BOOLEAN, p \in Pointers : handleMouseDown(c, p)
  \/ \E p \in Pointers : handleMouseMove(p)
  \/ handleMouseUp
  \/ \E c \in BOOLEAN : DoubleClick(c)
  \/ handleZoomIn
  \/ handleZoomOut
  \/ handleResetView
  \/ handleRecenter

\* C17: no viewport handler (wheel, pinch, drag, double-click, zoom
\* buttons, reset, recenter) changes a node or an edge of the built graph.
C17_ViewportKeepsGraph ==
  [][ViewportStep => createGraph(jsonInput', expandedNodes') = Graph]_vars

\* C17 witness: a graph with edges under a zoom and a pan that are not the
\* defaults, with a pinch and a drag in progress after a double-click.
C17_Witness ==
  /\ Len(edges) > 0
  /\ zoom # DefaultZoom
  /\ Truthy(lastTouchDistance)
  /\ isDragging
  /\ pan # DefaultPan
  /\ lastTap # 0

\* the zoom z limited to [0.1, 3.0]
Limited(z) == IF z < MinZoom THEN MinZoom ELSE IF z > MaxZoom THEN MaxZoom ELSE z

\* C18: a wheel event with the modifier sets zoom to zoom * 0.95 when
\* deltaY > 0 and to zoom * 1.05 otherwise, limited to [0.1, 3.0]; without
\* the modifier it keeps zoom and pan.
C18_WheelZoom ==
  [][\A m \in BOOLEAN, d \in WheelDeltas :
       handleWheel(m, d) =>
         IF m
         THEN zoom' = Limited(IF d > 0 THEN (zoom * 95 + 50) \div 100
                                       ELSE (zoom * 105 + 50) \div 100)
         ELSE UNCHANGED <<zoom, pan>>]_vars

\* C18 witness: the zoom after two wheel steps up from the default.
C18_Witness == zoom = 882 /\ lastTap = 0 /\ lastTouchDistance = NoDistance

\* C19: a press on the empty canvas starts a drag with the anchor at the
\* press position minus the pan, and nothing else starts one; a press on a
\* node starts none; a move to p while dragging sets pan to p minus the
\* anchor, a move while not dragging keeps pan; a release or leave ends
\* the drag.
C19_DragMachine ==
  [][/\ \A c \in BOOLEAN, p \in Pointers :
          handleMouseDown(c, p) =>
            IF c
            THEN /\ isDragging'
                 /\ dragStart' = [x |-> p.x - pan.x, y |-> p.y - pan.y]
                 /\ pan' = pan
            ELSE UNCHANGED <<isDragging, dragStart, pan>>
     /\ (~isDragging /\ isDragging') => \E p \in Pointers : handleMouseDown(TRUE, p)
     /\ \A p \in Pointers :
          handleMouseMove(p) =>
            /\ pan' = IF isDragging
                      THEN [x |-> p.x - dragStart.x, y |-> p.y - dragStart.y]
                      ELSE pan
            /\ UNCHANGED <<isDragging, dragStart>>
     /\ handleMouseUp => (~isDragging' /\ pan' = pan)]_vars

\* C19 witness: a drag in progress that has moved the pan off its default.
C19_Witness ==
  /\ isDragging
  /\ pan # DefaultPan
  /\ \E p \in Pointers : pan = [x |-> p.x - dragStart.x, y |-> p.y - dragStart.y]

\* C20: a tap on the empty canvas less than 300 ms after the previous tap
\* on the empty canvas sets zoom to 0.5 when it is 1.0 and to 1.0
\* otherwise, and sets pan to (50, 50); a tap 300 ms or more after the
\* previous tap, and a tap on a node, keep zoom and pan.
C20_DoubleTap ==
  [][/\ (CanvasTap /\ Pairs(CanvasTarget) /\ now - lastClick.at < DoubleTapMs) =>
          /\ zoom' = IF zoom = ZoomOne THEN ZoomHalf ELSE ZoomOne
          /\ pan' = DefaultPan
     /\ (CanvasTap /\ lastClick.at # 0 /\ now - lastClick.at >= DoubleTapMs) =>
          UNCHANGED <<zoom, pan>>
     /\ NodeTap => UNCHANGED <<zoom, pan>>]_vars

\* C21: the reset button sets zoom to 0.8 and pan to (50, 50) and keeps the
\* selection and the expansion set; recenter sets the same zoom and pan,
\* clears the selection and keeps the expansion set.
C21_ResetAndRecenter ==
  [][/\ handleResetView =>
          /\ zoom' = 800
          /\ pan' = [x |-> 50, y |-> 50]
          /\ UNCHANGED <<selectedNode, expandedNodes>>
     /\ handleRecenter =>
          /\ zoom' = 800
          /\ pan' = [x |-> 50, y |-> 50]
          /\ selectedNode' = Null
          /\ UNCHANGED expandedNodes]_vars

\* C21 witness: a selection and expanded nodes under a zoom and a pan that
\* are not the defaults, where reset and recenter act next.
C21_Witness ==
  /\ HasSelectedNodeData
  /\ expandedNodes # {}
  /\ zoom = ZoomHalf
  /\ pan # DefaultPan

\* the nodes of one depth level, in traversal order
LevelNodes(ns, d) == SelectSeq(ns, LAMBDA n : n.level = d)

\* C22: on every depth level the first node is at y = 50 and each later
\* node is at the y of the previous node of that level plus its height
\* plus 30.
C22_PerLevelCursor ==
  \A d \in {n.level : n \in NodeSet(nodes)} :
    LET ln == LevelNodes(nodes, d)
    IN /\ ln[1].y = 50
       /\ \A k \in 2..Len(ln) : ln[k].y = ln[k-1].y + ln[k-1].height + 30

\* the location of a node in the document: the keys from the root down to it
RECURSIVE PathOf(_, _)
PathOf(ns, id) ==
  LET n == Find(ns, id)
  IN IF n.parent = Undefined THEN <<n.key>> ELSE Append(PathOf(ns, n.parent), n.key)
\* the keys of a node's children, in order
ChildKeys(ns, n) == [i \in 1..Len(n.children) |-> Find(ns, n.children[i]).key]

\* C23: after the toggle of one node, every other location drawn both
\* before and after has the same expanded flag and the same children.
C23_ToggleKeepsOtherLocations ==
  \A n \in NodeSet(nodes) :
    RenderHasChildren(n) =>
      LET after == createGraph(jsonInput, ToggleSet(expandedNodes, n.id)).nodes
      IN \A m \in NodeSet(nodes), m2 \in NodeSet(after) :
           (/\ PathOf(nodes, m.id) = PathOf(after, m2.id)
            /\ PathOf(nodes, m.id) # PathOf(nodes, n.id))
             => /\ m2.isExpanded = m.isExpanded
                /\ ChildKeys(after, m2) = ChildKeys(nodes, m)

\* C24: a selected id is the id of a node of the current graph, and while
\* the selection is kept across a step it denotes the same location.
C24_SelectionKeepsTarget ==
  /\ [](selectedNode # Null => Found(nodes, selectedNode))
  /\ [][(/\ selectedNode # Null
         /\ selectedNode' = selectedNode
         /\ Found(nodes, selectedNode)
         /\ Found(createGraph(jsonInput', expandedNodes').nodes, selectedNode))
          => PathOf(createGraph(jsonInput', expandedNodes').nodes, selectedNode)
               = PathOf(nodes, selectedNode)]_vars

\* the targets of the edges that leave a node, in the order of the edge list
EdgeTargets(es, id) ==
  LET from == SelectSeq(es, LAMBDA e : e.from = id)
  IN [k \in 1..Len(from) |-> from[k].to]

\* C25: the root has depth 0 and no parent; every other node c has a parent
\* p in the graph with exactly one edge p->c, exactly one occurrence of c in
\* p.children and depth(c) = depth(p) + 1; the children of a node, and the
\* edges that leave it, follow the entries of its value in order: the
\* entry keys of an object, [0], [1], ... for an array.
C25_ConsistentTree ==
  LET ns == nodes
      es == edges
  IN Len(ns) > 0 =>
       /\ ns[1].level = 0
       /\ ns[1].parent = Undefined
       /\ \A i \in 2..Len(ns) :
            LET c == ns[i]
            IN /\ c.parent # Undefined
               /\ Found(ns, c.parent)
               /\ LET p == Find(ns, c.parent)
                  IN /\ Cardinality({k \in 1..Len(es) :
                                       es[k].from = p.id /\ es[k].to = c.id}) = 1
                     /\ Cardinality({k \in 1..Len(p.children) : p.children[k] = c.id}) = 1
                     /\ c.level = p.level + 1
       /\ \A n \in NodeSet(ns) :
            /\ EdgeTargets(es, n.id) = n.children
            /\ Len(n.children) > 0 =>
                 /\ Len(n.children) = Len(n.value.entries)
                 /\ \A k \in 1..Len(n.children) :
                      LET c == Find(ns, n.children[k])
                      IN /\ c.value = n.value.entries[k].value
                         /\ c.key = IF n.value.tag = "Array"
                                    THEN "[" \o ToString(k - 1) \o "]"
                                    ELSE n.value.entries[k].key

\* C25 witness: the sample with an object, an array inside it and an
\* object inside that array expanded.
C25_Witness ==
  /\ jsonInput = SampleText
  /\ \E n \in NodeSet(nodes) : n.level = 3
  /\ \E n \in NodeSet(nodes) : n.type = "array" /\ Len(n.children) = 2

\* the boxes of two nodes share a point of positive area
Overlap(a, b) ==
  /\ a.x < b.x + b.width /\ b.x < a.x + a.width
  /\ a.y < b.y + b.height /\ b.y < a.y + a.height

\* C26: no two node boxes overlap, a node of depth d has x = d * 300 + 50,
\* and every edge ends at a node that lies to the right of the box of the
\* node it starts at.
C26_NoLayoutConflict ==
  LET ns == nodes
      es == edges
  IN /\ \A i, j \in 1..Len(ns) : i < j => ~Overlap(ns[i], ns[j])
     /\ \A n \in NodeSet(ns) : n.x = n.level * 300 + 50
     /\ \A k \in 1..Len(es) :
          Find(ns, es[k].from).x + Find(ns, es[k].from).width <= Find(ns, es[k].to).x

\* C26 witness: a graph with several nodes on each of three depth levels,
\* one of them taller than the base height.
C26_Witness ==
  LET ns == nodes
  IN /\ \A d \in 1..2 : Len(LevelNodes(ns, d)) >= 2
     /\ \E n \in NodeSet(ns) : n.level = 1 /\ n.height > 100

\* C27: a node's height is 100, plus min(childCount * 25, 150) when its
\* value is a non-empty object or array and its id is in the expansion set;
\* no node is taller than 250.
C27_Height ==
  \A n \in NodeSet(nodes) :
    /\ n.height = 100 + (IF NonEmptyContainer(n.value) /\ n.id \in expandedNodes
                         THEN (IF Len(n.value.entries) * 25 < 150
                               THEN Len(n.value.entries) * 25 ELSE 150)
                         ELSE 0)
    /\ n.height <= 250

\* C27 witness: an expanded array of seven items, at the cap, with its
\* primitive items.
C27_Witness ==
  LET ns == nodes
  IN /\ Len(ns) = 8
     /\ ns[1].height = 250
     /\ ns[2].height = 100

\* C28: a node whose value is a non-empty object or array and whose id is
\* in the expansion set shows min(3, childCount) preview rows, and a
\* "+N more" line with N = childCount - 3 exactly when childCount > 3; a
\* node whose id is not in the expansion set shows no preview row.
C28_PreviewOnlyWhenExpanded ==
  \A n \in NodeSet(nodes) :
    LET count == Len(n.value.entries)
    IN IF n.id \in expandedNodes
       THEN NonEmptyContainer(n.value) =>
              /\ Len(PreviewRows(n)) = (IF count < 3 THEN count ELSE 3)
              /\ MoreCount(n) = (IF count > 3 THEN count - 3 ELSE 0)
       ELSE Len(PreviewRows(n)) = 0

\* C29: a distance starts to be tracked only by a touch-start with exactly
\* two points, and a touch-end stops the tracking; a touch-move with two
\* points, a tracked distance d0 that is not zero and a new distance d that
\* is not zero sets zoom to zoom * (1 + (d / d0 - 1) * 0.3), limited to
\* [0.1, 3.0], and tracks d; any other touch-move keeps zoom and the
\* tracked distance; no touch event changes pan.
C29_PinchMachine ==
  [][/\ (lastTouchDistance = NoDistance /\ lastTouchDistance' # NoDistance) =>
          \E t \in TouchLists : Len(t) = 2 /\ handleTouchStart(t)
     /\ \A t \in TouchLists :
          handleTouchStart(t) =>
            /\ Len(t) # 2 => lastTouchDistance' = lastTouchDistance
            /\ UNCHANGED <<zoom, pan>>
     /\ handleTouchEnd => (lastTouchDistance' = NoDistance /\ UNCHANGED <<zoom, pan>>)
     /\ \A t \in TouchLists :
          handleTouchMove(t) =>
            LET d0 == lastTouchDistance
                d == getTouchDistance(t)
            IN /\ IF Len(t) = 2 /\ d0 # NoDistance /\ d0 # 0 /\ d # 0
                  THEN /\ zoom' = Limited((zoom * (7 * d0 + 3 * d) + 5 * d0) \div (10 * d0))
                       /\ lastTouchDistance' = d
                  ELSE UNCHANGED <<zoom, lastTouchDistance>>
               /\ pan' = pan]_vars

\* C29 witness: the zoom after one pinch from a distance of 5 to 45 at the
\* default zoom, with the new distance tracked.
C29_Witness == zoom = 2720 /\ lastTouchDistance = 45

\* C30: at most one listener of each event type is attached to the
\* container, and none is attached once the component is unmounted.
C30_ListenersSymmetric ==
  /\ \A type \in {"wheel", "touchstart", "touchmove", "touchend"} :
       Cardinality({l \in listeners : l.type = type}) <= 1
  /\ ~mounted => listeners = {}

\* C30 witness: the component unmounted in the middle of a pinch, after
\* handleTouchMove had been made anew.
C30_Witness == ~mounted /\ Truthy(lastTouchDistance) /\ zoom # DefaultZoom

====
